---- MODULE Spec2Model ----
(***************************************************************************)
(* Model of the streaming-aggregation core of crypto-chart-ng:             *)
(*   - WebSocketService (src/unnamed/part_000, lines 141-458): the         *)
(*     reconnecting transport state machine and the subscribe handshake;   *)
(*   - CryptoChartSDK (src/unnamed/part_001, lines 20-498): the facade     *)
(*     that owns the candle series, the poll timer and the history fetch.  *)
(*   - the wire codec (src/src/utils/binary-deserializer.ts): candle       *)
(*     batches byte by byte, trade records by their fields.                *)
(*                                                                         *)
(* Scheduling is the browser's: one event loop, every handler runs to      *)
(* completion, timers and transport events interleave in any order.  Each  *)
(* action below is one whole handler.                                      *)
(***************************************************************************)
EXTENDS Integers, Sequences, FiniteSets, TLC

VARIABLES
  \* ---- WebSocketService fields (part_000:142-150)
  ws,                 \* the socket this.ws refers to (a slot), or NoSocket
  isConnecting,
  connectionTimeout,  \* "null" | "pending" (timer armed) | "fired" (id kept, timer gone)
  reconnectAttempts,
  reconnectDelay,
  subscribeId,
  isSubscribed,
  config,             \* [reconnectDelay, urlOk]: the WebSocketConfig given at construction
  \* ---- the runtime around the service
  sock,               \* readyState of every socket object the service created
  debounceTimers,     \* pending setTimeout(connect, 1000) of startConnection
  reconnectTimers,    \* pending setTimeout of attemptReconnect
  \* ---- observation of the run (written, never read, by the operations)
  events,             \* what the last handler emitted: callbacks invoked, frames sent
  lastOp,             \* the handler that ran last
  lastText,           \* the text frame it handled (<<>>: none)
  starts,             \* startConnection() calls made so far
  stopped,            \* disconnect() was called and startConnection() not since
  failuresSinceOpen,  \* attemptReconnect() calls since the last onopen
  fatalSinceOpen,     \* fatal errors reported since the last onopen
  lastDelay,          \* delay of the last retry timer armed since the last onopen (0: none)
  retryOwed,          \* a retry timer was armed and connect() has not run since
  frames,             \* binary frames the transport has delivered so far
  pendingBlobs,       \* Blob frames whose arrayBuffer() promise has not resolved yet
  lastFrame,          \* the binary frame the last handler decoded (NoFrame: none)
  lastTradeSeq,       \* delivery number of the frame of the last trade callback (0: none)
  \* ---- CryptoChartSDK fields (part_001:26-31) and its pending awaits
  candles,
  currentTokenId,
  updateInterval,     \* TRUE while the setInterval poll timer is registered
  liveTimers,         \* setInterval timers created and not cleared
  chartUpdateInterval, \* this.chartConfig.updateInterval
  isLoading,
  historyFetches,     \* initialize() calls suspended at the await of fetchHistoryCandles
  pollFetches,        \* fetchLatestCandle() calls suspended at the await of fetchSingleCandle
  now,                \* Math.floor(Date.now() / 1000)
  notified,           \* the candle lists of the snapshots the last handler delivered
  destroyed,          \* destroy() was called and initialize() not since
  sdkOps,             \* initialize() and destroy() calls made so far
  seriesBefore,       \* the series as it was when initialize() was last called
  \* ---- the wire codec at work (binary-deserializer.ts)
  buffer,             \* the bytes at hand
  encodedFrom,        \* <<cs>> while buffer is createMockBinaryData(cs) untouched, else <<>>
  decoded             \* what deserializeCandleData made of buffer (NoResult: not called)

wsVars == <<ws, isConnecting, connectionTimeout, reconnectAttempts, reconnectDelay,
            subscribeId, isSubscribed, sock, debounceTimers, reconnectTimers,
            events, lastText, starts, stopped, failuresSinceOpen, fatalSinceOpen,
            lastDelay, retryOwed, frames, pendingBlobs, lastFrame, lastTradeSeq>>

sdkVars == <<candles, currentTokenId, updateInterval, liveTimers, chartUpdateInterval,
             isLoading, historyFetches,
             pollFetches, now, notified, destroyed, sdkOps, seriesBefore>>

codecVars == <<buffer, encodedFrom, decoded>>

vars == <<wsVars, sdkVars, codecVars, config, lastOp>>

----------------------------------------------------------------------------
\* Bounds of the model

\* startConnection() calls in one run; also the number of socket slots, since
\* every live socket and every pending connect timer descends from one call.
MaxStarts == 2

\* Program constants
\* this.maxReconnectAttempts = config.maxReconnectAttempts || 5
MaxReconnectAttempts == 5

DefaultReconnectDelay == 1000
\* chartConfig.updateInterval when the caller gives none
DefaultUpdateInterval == 60000
MaxBackoff == 30000

\* config.reconnectDelay as given by the caller: 0 stands for "not given"
ConfigDelays == {0, 16000}

NoSocket == 0
Slots == 1..MaxStarts
NULL == "NULL"
NoFrame == [byteLength |-> -1, TradeTime |-> 0, USD |-> 0, Amount |-> 0]
NoResult == [ok |-> FALSE, error |-> "not called", candles |-> <<>>]

Min(a, b) == IF a <= b THEN a ELSE b
Max(a, b) == IF a >= b THEN a ELSE b

\* the Number values Infinity and NaN: Infinity is above every number of the
\* model, -Infinity below; NaN is a value apart
Infinity == 1000000000
NaN == -Infinity - 1
\* Math.max and Math.min: NaN when an argument is NaN
MathMax(a, b) == IF a = NaN \/ b = NaN THEN NaN ELSE Max(a, b)
MathMin(a, b) == IF a = NaN \/ b = NaN THEN NaN ELSE Min(a, b)

----------------------------------------------------------------------------
\* The service as one value, so that the methods compose as the code calls them.

This ==
  [ ws |-> ws, isConnecting |-> isConnecting, connectionTimeout |-> connectionTimeout,
    reconnectAttempts |-> reconnectAttempts, reconnectDelay |-> reconnectDelay,
    subscribeId |-> subscribeId, isSubscribed |-> isSubscribed, sock |-> sock,
    debounceTimers |-> debounceTimers, reconnectTimers |-> reconnectTimers,
    events |-> <<>>, lastText |-> <<>>, starts |-> starts, stopped |-> stopped,
    failuresSinceOpen |-> failuresSinceOpen, fatalSinceOpen |-> fatalSinceOpen,
    lastDelay |-> lastDelay, retryOwed |-> retryOwed,
    frames |-> frames, pendingBlobs |-> pendingBlobs, lastFrame |-> NoFrame,
    lastTradeSeq |-> lastTradeSeq ]

Commit(r) ==
  /\ ws' = r.ws
  /\ isConnecting' = r.isConnecting
  /\ connectionTimeout' = r.connectionTimeout
  /\ reconnectAttempts' = r.reconnectAttempts
  /\ reconnectDelay' = r.reconnectDelay
  /\ subscribeId' = r.subscribeId
  /\ isSubscribed' = r.isSubscribed
  /\ sock' = r.sock
  /\ debounceTimers' = r.debounceTimers
  /\ reconnectTimers' = r.reconnectTimers
  /\ events' = r.events
  /\ lastText' = r.lastText
  /\ starts' = r.starts
  /\ stopped' = r.stopped
  /\ failuresSinceOpen' = r.failuresSinceOpen
  /\ fatalSinceOpen' = r.fatalSinceOpen
  /\ lastDelay' = r.lastDelay
  /\ retryOwed' = r.retryOwed
  /\ frames' = r.frames
  /\ pendingBlobs' = r.pendingBlobs
  /\ lastFrame' = r.lastFrame
  /\ lastTradeSeq' = r.lastTradeSeq

Emit(r, k, a) == [r EXCEPT !.events = Append(@, [kind |-> k, arg |-> a])]

\* this.config.reconnectDelay || 1000
InitialDelay(cfg) == IF cfg.reconnectDelay = 0 THEN DefaultReconnectDelay ELSE cfg.reconnectDelay

\* variant: the backoff without its cap
BackoffNext_NoCap(d) == d * 2

\* Math.min(this.reconnectDelay * 2, 30000)
BackoffNext(d) == Min(d * 2, MaxBackoff)

\* if (this.connectionTimeout) { clearTimeout(...); this.connectionTimeout = null; }
ClearConnectionTimeout(r) == [r EXCEPT !.connectionTimeout = "null"]

FatalMessage == "Failed to reconnect after maximum attempts"

\* variant: the attempts test off by one: <= for <
AttemptReconnect_OffByOne(r0) ==
  LET r == [r0 EXCEPT !.failuresSinceOpen = @ + 1] IN
  IF r.reconnectAttempts <= MaxReconnectAttempts
  THEN [r EXCEPT !.reconnectAttempts = @ + 1,
                 !.reconnectTimers = @ + 1,
                 !.lastDelay = r.reconnectDelay,
                 !.retryOwed = TRUE,
                 !.reconnectDelay = BackoffNext(@)]
  ELSE Emit([r EXCEPT !.fatalSinceOpen = @ + 1], "error", FatalMessage)

AttemptReconnect(r0) ==
  LET r == [r0 EXCEPT !.failuresSinceOpen = @ + 1] IN
  IF r.reconnectAttempts < MaxReconnectAttempts
  THEN [r EXCEPT !.reconnectAttempts = @ + 1,
                 !.reconnectTimers = @ + 1,
                 !.lastDelay = r.reconnectDelay,
                 !.retryOwed = TRUE,
                 !.reconnectDelay = BackoffNext(@)]
  ELSE Emit([r EXCEPT !.fatalSinceOpen = @ + 1], "error", FatalMessage)

\* A socket object nothing refers to any more: closed, and not this.ws.
FreeSlots(r) == {s \in Slots : r.sock[s] \in {"NONE", "CLOSED"}}
NewSocket(r) == CHOOSE s \in FreeSlots(r) : \A t \in FreeSlots(r) : s <= t

Connect(r, cfg) ==
  IF r.isConnecting THEN r
  ELSE IF ~cfg.urlOk
  THEN \* new WebSocket(url) throws: the catch block
       AttemptReconnect([r EXCEPT !.isConnecting = FALSE, !.retryOwed = FALSE])
  ELSE LET s == NewSocket(r) IN
       [r EXCEPT !.isConnecting = TRUE,
                 !.ws = s,
                 !.sock = [t \in Slots |-> IF t = s THEN "CONNECTING"
                                           ELSE IF r.sock[t] = "CLOSED" THEN "NONE"
                                           ELSE r.sock[t]],
                 !.connectionTimeout = "pending",
                 !.retryOwed = FALSE]

\* variant: the retry timer's callback does not connect
OnReconnectTimer_Lost(r, cfg) == r

\* the callback of the retry timer: if (!this.isConnecting) this.connect()
OnReconnectTimer(r, cfg) == IF ~r.isConnecting THEN Connect(r, cfg) ELSE r

IsOpen(r) == r.ws # NoSocket /\ r.sock[r.ws] = "OPEN"

StartConnectionOp(r) ==
  LET r1 == [r EXCEPT !.starts = @ + 1, !.stopped = FALSE] IN
  IF IsOpen(r) THEN r1
  ELSE [r1 EXCEPT !.debounceTimers = @ + 1]

\* the callback of the connect-timeout timer
OnConnectionTimeout(r) ==
  LET r1 == [r EXCEPT !.connectionTimeout = "fired"] IN
  IF r.ws # NoSocket /\ r.sock[r.ws] = "CONNECTING"
  THEN [r1 EXCEPT !.sock[r.ws] = "CLOSING"]
  ELSE r1

\* variant: onopen replays the subscribe request of the held subscription
OnOpen_Replay(r, s, cfg) ==
  LET opened == Emit(ClearConnectionTimeout(
                       [r EXCEPT !.sock[s] = "OPEN",
                                 !.isConnecting = FALSE,
                                 !.reconnectAttempts = 0,
                                 !.reconnectDelay = InitialDelay(cfg),
                                 !.failuresSinceOpen = 0,
                                 !.fatalSinceOpen = 0,
                                 !.lastDelay = 0]),
                     "connection", "connected")
  IN IF r.isSubscribed THEN Emit(opened, "send_subscribe", r.subscribeId) ELSE opened

OnOpen(r, s, cfg) ==
  Emit(ClearConnectionTimeout(
         [r EXCEPT !.sock[s] = "OPEN",
                   !.isConnecting = FALSE,
                   !.reconnectAttempts = 0,
                   !.reconnectDelay = InitialDelay(cfg),
                   !.failuresSinceOpen = 0,
                   !.fatalSinceOpen = 0,
                   !.lastDelay = 0]),
       "connection", "connected")

OnError(r) ==
  Emit(ClearConnectionTimeout([r EXCEPT !.isConnecting = FALSE]),
       "error", "WebSocket connection error")

OnClose(r, s) ==
  AttemptReconnect(
    Emit(ClearConnectionTimeout(
           [r EXCEPT !.sock[s] = IF r.ws = s THEN "CLOSED" ELSE "NONE",
                     !.isConnecting = FALSE]),
         "connection", "disconnected"))

\* ws.close(): a socket that is connecting or open starts closing
CloseSocket(st) == IF st \in {"CONNECTING", "OPEN"} THEN "CLOSING"
                   ELSE IF st = "CLOSED" THEN "NONE" ELSE st

\* variant: disconnect() forgets to reset isSubscribed
DisconnectOp_KeepsFlag(r) ==
  LET r1 == IF r.ws # NoSocket
            THEN [r EXCEPT !.sock[r.ws] = CloseSocket(@), !.ws = NoSocket]
            ELSE r
  IN [r1 EXCEPT !.subscribeId = NULL, !.stopped = TRUE]

DisconnectOp(r) ==
  LET r1 == IF r.ws # NoSocket
            THEN [r EXCEPT !.sock[r.ws] = CloseSocket(@), !.ws = NoSocket]
            ELSE r
  IN [r1 EXCEPT !.subscribeId = NULL, !.isSubscribed = FALSE, !.stopped = TRUE]

----------------------------------------------------------------------------
\* Text frames.  A text is a sequence of lexemes; the two grammars the code
\* tells apart are JSON ("{" key value ... "}", or the literal null) and the
\* legacy plain text ("subscribe_id:" followed by the identifier, "unsubscribed").

UNDEFINED == "UNDEFINED"
TokenIds == {"A", "B"}

\* identifiers a server may put in an acknowledgement ("" is the empty string)
AckIds == {"", "s1", "s2"}

StructuredAck(id, status) ==
  <<"{", "action", "subscribed", "subscribe_id", id>>
    \o (IF status = "none" THEN <<>> ELSE <<"status", status>>) \o <<"}">>
LegacyAck(id) == IF id = "" THEN <<"subscribe_id:">> ELSE <<"subscribe_id:", id>>
StructuredUnsubAck(status) == <<"{", "action", "unsubscribed", "status", status, "}">>
LegacyUnsubAck == <<"unsubscribed">>

Texts ==
  {StructuredAck(id, st) : id \in AckIds, st \in {"none", "success", "error"}}
    \cup {LegacyAck(id) : id \in AckIds}
    \cup {StructuredUnsubAck(st) : st \in {"success", "error"}}
    \cup {LegacyUnsubAck, <<"null">>, <<"hello">>, <<"{", "action", "subscribed", "}">>}

\* JSON.parse: ok is FALSE when it throws
JsonParse(text) ==
  IF text = <<"null">> THEN [ok |-> TRUE, isObject |-> FALSE, members |-> <<>>]
  ELSE IF /\ Len(text) >= 2
          /\ text[1] = "{"
          /\ text[Len(text)] = "}"
          /\ (Len(text) - 2) % 2 = 0
       THEN [ok |-> TRUE, isObject |-> TRUE, members |-> SubSeq(text, 2, Len(text) - 1)]
       ELSE [ok |-> FALSE, isObject |-> FALSE, members |-> <<>>]

\* jsonData[key]
Member(j, key) ==
  LET at == {i \in 1..Len(j.members) : i % 2 = 1 /\ j.members[i] = key} IN
  IF at = {} THEN UNDEFINED
  ELSE j.members[(CHOOSE i \in at : \A k \in at : k <= i) + 1]

\* JavaScript truthiness of a string-or-missing value
Truthy(v) == v \notin {"", UNDEFINED, NULL}

\* message.startsWith(prefix)
StartsWith(text, prefix) == Len(text) >= 1 /\ text[1] = prefix

\* message.replace(prefix, ''): the first occurrence is removed; the texts of the
\* model carry at most one lexeme besides the prefix
ReplaceFirst(text, prefix) ==
  LET at == {i \in 1..Len(text) : text[i] = prefix} IN
  IF at = {} THEN text
  ELSE LET i == CHOOSE k \in at : \A m \in at : k <= m IN
       SubSeq(text, 1, i - 1) \o SubSeq(text, i + 1, Len(text))
AsString(text) == IF text = <<>> THEN "" ELSE text[1]

SetSubscribed(r, id) ==
  Emit([r EXCEPT !.subscribeId = id, !.isSubscribed = TRUE], "subscription", id)
SetUnsubscribed(r) ==
  Emit([r EXCEPT !.subscribeId = NULL, !.isSubscribed = FALSE], "subscription", "")

\* the catch (parseError) block
HandleLegacyText(r, message) ==
  IF StartsWith(message, "subscribe_id:")
  THEN SetSubscribed(r, AsString(ReplaceFirst(message, "subscribe_id:")))
  ELSE IF message = LegacyUnsubAck THEN SetUnsubscribed(r)
  ELSE r

HandleTextMessage(r, message) ==
  LET j == JsonParse(message) IN
  IF j.ok /\ j.isObject
  THEN IF Member(j, "action") = "subscribed" /\ Truthy(Member(j, "subscribe_id"))
       THEN SetSubscribed(r, Member(j, "subscribe_id"))
       ELSE IF Member(j, "action") = "unsubscribed" /\ Member(j, "status") = "success"
       THEN SetUnsubscribed(r)
       ELSE r
  ELSE \* JSON.parse threw, or jsonData is null and reading jsonData.action threw
       HandleLegacyText(r, message)

\* variant: send() without the readyState test
Send_Unguarded(r, k, a) == Emit(r, k, a)

Send(r, k, a) ==
  IF IsOpen(r) THEN Emit(r, k, a)
  ELSE Emit(r, "warn", "WebSocket is not connected")

SubscribeOp(r, tokenId) == Send(r, "send_subscribe", tokenId)

\* variant: unsubscribe() clears the identifier itself
UnsubscribeOp_Clears(r) ==
  IF Truthy(r.subscribeId)
  THEN [Send(r, "send_unsubscribe", r.subscribeId) EXCEPT !.subscribeId = NULL,
                                                         !.isSubscribed = FALSE]
  ELSE Emit(r, "warn", "No active subscription to unsubscribe from")

UnsubscribeOp(r) ==
  IF Truthy(r.subscribeId) THEN Send(r, "send_unsubscribe", r.subscribeId)
  ELSE Emit(r, "warn", "No active subscription to unsubscribe from")

----------------------------------------------------------------------------
\* CryptoChartSDK (part_001): the candle series

\* facade calls (initialize, destroy) in one run
MaxSdkOps == 3

\* chartConfig.maxCandles as given by the caller (the default is 1000)
MaxCandles == 2

SecondsPerDay == 86400
Nows == {SecondsPerDay + 130}

Flat(ts, p) ==
  [Timestamp |-> ts, OpenPrice |-> p, ClosePrice |-> p, HighPrice |-> p,
   LowPrice |-> p, VolumeIn |-> 1, VolumeOut |-> 1]

\* what fetchHistoryCandles may resolve to (never rejects: [] on any failure)
Histories ==
  {<<>>, <<Flat(120, 10)>>, <<Flat(60, 10), Flat(120, 11), Flat(180, 12)>>,
   <<Flat(60, 10), Flat(7200, 11)>>,
   \* the candles are taken as the server sends them: this one opens above its high
   <<[Flat(120, 5) EXCEPT !.OpenPrice = 10]>>,
   \* ... and these are not in ascending order
   <<Flat(120, 10), Flat(300, 11), Flat(240, 12)>>,
   <<Flat(300, 11), Flat(120, 10), Flat(240, 12)>>}

\* what fetchSingleCandle may resolve to, besides null
PollCandles == {Flat(60, 20), Flat(120, 21), Flat(240, 22)}

RECURSIVE InsertSorted(_, _)
\* stable insertion by Timestamp
InsertSorted(cs, c) ==
  IF cs = <<>> THEN <<c>>
  ELSE IF cs[Len(cs)].Timestamp <= c.Timestamp THEN Append(cs, c)
  ELSE Append(InsertSorted(SubSeq(cs, 1, Len(cs) - 1), c), cs[Len(cs)])

RECURSIVE SortByTimestamp(_)
\* candles.sort((a, b) => a.Timestamp - b.Timestamp): a stable sort
SortByTimestamp(cs) ==
  IF cs = <<>> THEN <<>>
  ELSE InsertSorted(SortByTimestamp(SubSeq(cs, 1, Len(cs) - 1)), cs[Len(cs)])

\* candles.slice(-n), n > 0
SliceLast(cs, n) == IF Len(cs) > n THEN SubSeq(cs, Len(cs) - n + 1, Len(cs)) ELSE cs

\* candles.filter(candle => candle.Timestamp >= cutoff)
FilterFrom(cs, cutoff) == SelectSeq(cs, LAMBDA c : c.Timestamp >= cutoff)

\* candles.findIndex(candle => candle.Timestamp === ts), 0 for -1
FindIndex(cs, ts) ==
  LET at == {i \in 1..Len(cs) : cs[i].Timestamp = ts} IN
  IF at = {} THEN 0 ELSE CHOOSE i \in at : \A k \in at : i <= k

\* variant: the new candle is pushed and the series is not sorted
PlaceCandle_NoSort(cs, newCandle) ==
  LET existingIndex == FindIndex(cs, newCandle.Timestamp)
  IN IF existingIndex > 0 THEN [cs EXCEPT ![existingIndex] = newCandle]
     ELSE Append(cs, newCandle)

\* the candle is put in its place: replaced where its timestamp is found,
\* pushed and the series sorted otherwise
PlaceCandle(cs, newCandle) ==
  LET existingIndex == FindIndex(cs, newCandle.Timestamp)
  IN IF existingIndex > 0 THEN [cs EXCEPT ![existingIndex] = newCandle]
     ELSE SortByTimestamp(Append(cs, newCandle))

\* the two prune steps: the cap of maxCandles, then the 24 h window
PruneSeries(cs, t) ==
  LET capped == IF Len(cs) > MaxCandles THEN SliceLast(cs, MaxCandles) ELSE cs
  IN FilterFrom(capped, t - 24 * 60 * 60)

\* fetchLatestCandle after the await, for a candle that is not null
UpsertCandle(cs, newCandle, t) == PruneSeries(PlaceCandle(cs, newCandle), t)

----------------------------------------------------------------------------
\* Binary trade frames (binary-deserializer.ts) and the merge of a trade into
\* the series (part_001:299-390)

\* binary frames the transport delivers in one run
MaxFrames == 2

\* a frame of byteLength bytes; the three fields are what the first 24 bytes hold
Frame(n, t, usd, amount) == [byteLength |-> n, TradeTime |-> t, USD |-> usd, Amount |-> amount]

\* the frames a server may send: trades around the candles of Histories and
\* PollCandles, and frames of a wrong size.  Amount is positive and divides USD,
\* so that USD / Amount is an integer.
Frames ==
  {Frame(24, 130, 18, 2), Frame(24, 250, 26, 2), Frame(24, 3725, 12, 1), Frame(24, 10, 9, 1),
   Frame(0, 0, 0, 0), Frame(48, 130, 18, 2)}

\* usd / amount: the quotient for the frames above; a division by zero does not
\* throw, it gives Infinity, -Infinity or (0 / 0) NaN
Divide(a, b) ==
  IF b # 0 THEN a \div b
  ELSE IF a = 0 THEN NaN ELSE IF a > 0 THEN Infinity ELSE -Infinity

\* deserializeRealTimeTradeData: ok is FALSE when it throws
DeserializeRealTimeTradeData(data) ==
  IF data.byteLength # 24
  THEN [ok |-> FALSE, trade |-> NULL]
  ELSE [ok |-> TRUE,
        trade |-> [TradeTime |-> data.TradeTime, USD |-> data.USD, Amount |-> data.Amount,
                   Price |-> Divide(data.USD, data.Amount)]]

\* Math.floor(trade.TradeTime / 60) * 60
TradeMinuteTimestamp(trade) == (trade.TradeTime \div 60) * 60

\* variant: the window has no upper end
IsCurrentOrRecentCandle_Open(timeDiff) == timeDiff >= 0

IsCurrentOrRecentCandle(timeDiff) == timeDiff >= 0 /\ timeDiff <= 120

\* variant: the volumes are not accumulated
UpdatedCandle_KeepsVolume(latestCandle, trade) ==
  [latestCandle EXCEPT !.ClosePrice = trade.Price,
                       !.HighPrice = MathMax(@, trade.Price),
                       !.LowPrice = MathMin(@, trade.Price)]

UpdatedCandle(latestCandle, trade) ==
  [latestCandle EXCEPT !.ClosePrice = trade.Price,
                       !.HighPrice = MathMax(@, trade.Price),
                       !.LowPrice = MathMin(@, trade.Price),
                       !.VolumeIn = @ + trade.USD,
                       !.VolumeOut = @ + trade.Amount]

\* variant: the hour is added
CutoffTimestamp_Ahead(tradeMinuteTimestamp) == tradeMinuteTimestamp + (60 * 60)

\* variant: the cutoff is the trade's own minute
CutoffTimestamp_NoHour(tradeMinuteTimestamp) == tradeMinuteTimestamp

CutoffTimestamp(tradeMinuteTimestamp) == tradeMinuteTimestamp - (60 * 60)

\* variant: removing outdated candles delivers no snapshot
HandleRealTimeTrade_QuietPrune(cs, trade) ==
  IF Len(cs) = 0 THEN [candles |-> cs, notified |-> <<>>]
  ELSE
    LET tradeMinuteTimestamp == TradeMinuteTimestamp(trade)
        latestCandle == cs[Len(cs)]
        timeDiff == tradeMinuteTimestamp - latestCandle.Timestamp
    IN IF IsCurrentOrRecentCandle(timeDiff)
       THEN LET updated == [cs EXCEPT ![Len(cs)] = UpdatedCandle(latestCandle, trade)]
            IN [candles |-> updated, notified |-> <<updated>>]
       ELSE IF timeDiff < 0
       THEN [candles |-> FilterFrom(cs, CutoffTimestamp(tradeMinuteTimestamp)),
             notified |-> <<>>]
       ELSE [candles |-> cs, notified |-> <<>>]

\* handleRealTimeTrade: the series afterwards and the snapshots it delivers
HandleRealTimeTrade(cs, trade) ==
  IF Len(cs) = 0 THEN [candles |-> cs, notified |-> <<>>]
  ELSE
    LET tradeMinuteTimestamp == TradeMinuteTimestamp(trade)
        latestCandle == cs[Len(cs)]
        timeDiff == tradeMinuteTimestamp - latestCandle.Timestamp
    IN IF IsCurrentOrRecentCandle(timeDiff)
       THEN LET updated == [cs EXCEPT ![Len(cs)] = UpdatedCandle(latestCandle, trade)]
            IN [candles |-> updated, notified |-> <<updated>>]
       ELSE IF timeDiff < 0
       THEN LET kept == FilterFrom(cs, CutoffTimestamp(tradeMinuteTimestamp))
            IN [candles |-> kept,
                notified |-> IF Len(kept) # Len(cs) THEN <<kept>> ELSE <<>>]
       ELSE [candles |-> cs, notified |-> <<>>]

\* variant: the facade merges and does not call the consumer
TradeCallback_MergeOnly(r, cs, trade) ==
  LET merged == HandleRealTimeTrade(cs, trade)
  IN [r |-> r, candles |-> merged.candles, notified |-> merged.notified]

\* the update callback as the merge invokes it, once per snapshot
NotifyChartUpdate(r, snapshots) ==
  IF snapshots = <<>> THEN r ELSE Emit(r, "chartUpdate", snapshots[1])

\* variant: the consumer's trade callback runs before the merge
TradeCallback_TradeFirst(r, cs, trade) ==
  LET merged == HandleRealTimeTrade(cs, trade)
  IN [r |-> NotifyChartUpdate(Emit(r, "onTrade", trade), merged.notified),
      candles |-> merged.candles, notified |-> merged.notified]

\* the callback the facade registers with onTrade: merge, then the consumer's callback
TradeCallback(r, cs, trade) ==
  LET merged == HandleRealTimeTrade(cs, trade)
  IN [r |-> Emit(NotifyChartUpdate(r, merged.notified), "onTrade", trade),
      candles |-> merged.candles, notified |-> merged.notified]

\* variant: the catch block reports nothing
HandleBinaryMessage_Silent(r, cs, data) ==
  LET d == DeserializeRealTimeTradeData(data)
  IN IF d.ok THEN TradeCallback(Emit(r, "trade", d.trade), cs, d.trade)
     ELSE [r |-> r, candles |-> cs, notified |-> <<>>]

HandleBinaryMessage(r, cs, data) ==
  LET d == DeserializeRealTimeTradeData(data)
  IN IF d.ok THEN TradeCallback(Emit(r, "trade", d.trade), cs, d.trade)
     ELSE [r |-> Emit(r, "error", "Failed to deserialize binary data"),
           candles |-> cs, notified |-> <<>>]

----------------------------------------------------------------------------
Init ==
  /\ ws = NoSocket
  /\ isConnecting = FALSE
  /\ connectionTimeout = "null"
  /\ reconnectAttempts = 0
  /\ config \in [reconnectDelay : ConfigDelays, urlOk : BOOLEAN]
  /\ reconnectDelay = InitialDelay(config)
  /\ subscribeId = NULL
  /\ isSubscribed = FALSE
  /\ sock = [s \in Slots |-> "NONE"]
  /\ debounceTimers = 0
  /\ reconnectTimers = 0
  /\ events = <<>>
  /\ lastText = <<>>
  /\ lastOp = "new"
  /\ starts = 0
  /\ stopped = FALSE
  /\ failuresSinceOpen = 0
  /\ fatalSinceOpen = 0
  /\ lastDelay = 0
  /\ retryOwed = FALSE
  /\ frames = 0
  /\ pendingBlobs = {}
  /\ lastFrame = NoFrame
  /\ lastTradeSeq = 0
  /\ candles = <<>>
  /\ currentTokenId = NULL
  /\ updateInterval = FALSE
  /\ liveTimers = 0
  /\ chartUpdateInterval = DefaultUpdateInterval
  /\ isLoading = FALSE
  /\ historyFetches = {}
  /\ pollFetches = {}
  /\ now \in Nows
  /\ notified = <<>>
  /\ destroyed = FALSE
  /\ sdkOps = 0
  /\ seriesBefore = <<>>
  /\ buffer = <<>>
  /\ encodedFrom = <<>>
  /\ decoded = NoResult

\* a handler of the service that runs without the facade (its callbacks into the
\* facade only forward the notification)
WsStep(op, r) == Commit(r) /\ lastOp' = op /\ UNCHANGED <<config, sdkVars, codecVars>>

StartConnection ==
  /\ starts < MaxStarts
  /\ WsStep("startConnection", StartConnectionOp(This))

DebounceFire ==
  /\ debounceTimers > 0
  /\ WsStep("debounce", Connect([This EXCEPT !.debounceTimers = @ - 1], config))

ReconnectTimerFire ==
  /\ reconnectTimers > 0
  /\ LET r == [This EXCEPT !.reconnectTimers = @ - 1] IN
     WsStep("reconnectTimer", OnReconnectTimer(r, config))

ConnectTimeoutFire ==
  /\ connectionTimeout = "pending"
  /\ WsStep("connectTimeout", OnConnectionTimeout(This))

SocketOpen(s) ==
  /\ sock[s] = "CONNECTING"
  /\ WsStep("onopen", OnOpen(This, s, config))

\* The transport closes socket s.  A failed handshake fires error and then
\* close in one task; a close after Open may or may not be preceded by error.
SocketClose(s, err) ==
  /\ sock[s] \in {"CONNECTING", "OPEN", "CLOSING"}
  /\ sock[s] = "CONNECTING" => err
  /\ WsStep("onclose", OnClose(IF err THEN OnError(This) ELSE This, s))

Disconnect ==
  /\ stopped \in BOOLEAN
  /\ WsStep("disconnect", DisconnectOp(This))

\* a text frame arrives on an open socket (ws.onmessage, string branch)
RecvText(s, message) ==
  /\ sock[s] = "OPEN"
  /\ WsStep("onmessage", HandleTextMessage([This EXCEPT !.lastText = message], message))

Subscribe(tokenId) ==
  /\ tokenId \in TokenIds
  /\ WsStep("subscribe", SubscribeOp(This, tokenId))

Unsubscribe ==
  /\ subscribeId \in AckIds \cup {NULL}
  /\ WsStep("unsubscribe", UnsubscribeOp(This))

\* the connection state machine alone
ConnNext ==
  \/ StartConnection
  \/ DebounceFire
  \/ ReconnectTimerFire
  \/ ConnectTimeoutFire
  \/ \E s \in Slots : SocketOpen(s)
  \/ \E s \in Slots, err \in BOOLEAN : SocketClose(s, err)
  \/ Disconnect

\* the connection and the subscribe handshake over it
Next ==
  \/ ConnNext
  \/ \E s \in Slots, message \in Texts : RecvText(s, message)
  \/ \E tokenId \in TokenIds : Subscribe(tokenId)
  \/ Unsubscribe

Spec == Init /\ [][Next]_vars

\* Timers that are armed fire: the event loop runs every due callback.
FairSpec == Init /\ [][ConnNext]_vars /\ WF_vars(ReconnectTimerFire)

----------------------------------------------------------------------------
\* Properties

Emitted(es, k, a) == \E i \in 1..Len(es) : es[i].kind = k /\ es[i].arg = a
CountEmitted(es, k, a) == Cardinality({i \in 1..Len(es) : es[i].kind = k /\ es[i].arg = a})
Sends(es) == {i \in 1..Len(es) : es[i].kind \in {"send_subscribe", "send_unsubscribe"}}
Live == {s \in Slots : sock[s] \in {"CONNECTING", "OPEN"}}
OpenNow == ws # NoSocket /\ sock[ws] = "OPEN"

\* C1 (as stated): with maxReconnectAttempts = N, once N connection attempts have
\* failed in a row the N-th failure armed no retry timer (fewer than N were armed)
\* and the fatal error has been delivered exactly once.
C1_AfterNthFailure ==
  (lastOp = "onclose" /\ failuresSinceOpen = MaxReconnectAttempts) =>
    (reconnectAttempts < MaxReconnectAttempts /\ fatalSinceOpen = 1)

\* C1 (amended): each of the first N consecutive failures arms one retry timer and
\* reports nothing fatal; the (N+1)-th consecutive failure, and every later one
\* without an open in between, arms none and delivers the fatal error once, so
\* that exactly one fatal error has been delivered after N+1 failures.
C1_AfterNRetries ==
  /\ [](/\ reconnectAttempts = Min(failuresSinceOpen, MaxReconnectAttempts)
        /\ fatalSinceOpen = Max(failuresSinceOpen - MaxReconnectAttempts, 0))
  /\ [][failuresSinceOpen' = failuresSinceOpen + 1 =>
          IF failuresSinceOpen >= MaxReconnectAttempts
          THEN /\ reconnectTimers' <= reconnectTimers
               /\ CountEmitted(events', "error", FatalMessage) = 1
          ELSE /\ reconnectTimers' >= reconnectTimers
               /\ lastOp' = "onclose" => reconnectTimers' = reconnectTimers + 1
               /\ ~Emitted(events', "error", FatalMessage)]_vars

C1_Witness ==
  /\ lastOp = "onclose"
  /\ failuresSinceOpen = MaxReconnectAttempts + 1
  /\ fatalSinceOpen = 1
  /\ reconnectTimers = 0
  /\ Emitted(events, "error", FatalMessage)

\* C2: after disconnect(), and until startConnection() is called again, no
\* callback opens a new socket (this.ws stays null, no socket is connecting or
\* open) or arms a retry timer.
C2_StopIsFinal ==
  [][(stopped /\ stopped') =>
       /\ ws' = NoSocket
       /\ \A s \in Slots : sock'[s] \in {"CONNECTING", "OPEN"} => sock[s] \in {"CONNECTING", "OPEN"}
       /\ reconnectTimers' <= reconnectTimers]_vars

\* C4: at any time at most one socket created by the service is connecting or open.
C4_OneLiveSocket == Cardinality(Live) <= 1

\* C5: the delay of every retry timer is the initial delay when it is the first
\* since construction or since the last onopen, and min(2 * previous, 30000)
\* otherwise; onopen resets reconnectAttempts to 0 and the delay to the initial one.
C5_Backoff ==
  /\ [][reconnectAttempts' = reconnectAttempts + 1 =>
          lastDelay' = IF lastDelay = 0 THEN InitialDelay(config)
                       ELSE Min(2 * lastDelay, 30000)]_vars
  /\ [][lastOp' = "onopen" =>
          reconnectAttempts' = 0 /\ reconnectDelay' = InitialDelay(config)]_vars

C5_Witness == reconnectAttempts = 2 /\ lastDelay = 30000 /\ lastOp = "onclose"

\* C6: a close that finds reconnectAttempts < maxReconnectAttempts is followed,
\* once its retry timer fires, by a new connection attempt; a close that finds
\* reconnectAttempts = maxReconnectAttempts arms no timer and reports the fatal error.
C6_RetryOrHalt ==
  /\ (retryOwed /\ ~stopped) ~> ~retryOwed
  /\ [][lastOp' = "onclose" /\ failuresSinceOpen' = failuresSinceOpen + 1 =>
          IF reconnectAttempts < MaxReconnectAttempts
          THEN retryOwed' /\ reconnectTimers' = reconnectTimers + 1
          ELSE /\ reconnectTimers' = reconnectTimers
               /\ ws' = ws /\ Live' \subseteq Live
               /\ Emitted(events', "error", FatalMessage)]_vars

C6_Witness ==
  /\ lastOp = "reconnectTimer"
  /\ ~stopped /\ ~retryOwed
  /\ failuresSinceOpen >= 1
  /\ ws # NoSocket /\ sock[ws] = "CONNECTING"

\* C7: every socket that is connecting is guarded by an armed connect-timeout
\* timer, so no socket stays in Connecting forever.
C7_ConnectingIsTimed ==
  \A s \in Slots : sock[s] = "CONNECTING" => connectionTimeout = "pending"

\* C8: the onopen handler emits 'connected' and sends nothing; a subscribe
\* request is sent only by a subscribe() call made while the connection is open.
C8_NoReplayOnOpen ==
  [][/\ lastOp' = "onopen" =>
          Emitted(events', "connection", "connected") /\ Sends(events') = {}
     /\ (\E i \in 1..Len(events') : events'[i].kind = "send_subscribe") =>
          lastOp' = "subscribe" /\ OpenNow]_vars

C8_Witness ==
  /\ lastOp = "onopen"
  /\ starts = 1
  /\ isSubscribed
  /\ Emitted(events, "connection", "connected")

\* C9: after disconnect(), whatever the state before it, this.ws is null, the
\* socket it referred to is no longer connecting or open, subscribeId is null
\* and isSubscribed is false.
C9_DisconnectClears ==
  [][lastOp' = "disconnect" =>
       /\ ws' = NoSocket
       /\ ws # NoSocket => sock'[ws] \notin {"CONNECTING", "OPEN"}
       /\ subscribeId' = NULL
       /\ ~isSubscribed']_vars

C9_Witness ==
  /\ lastOp = "disconnect"
  /\ \E s \in Slots : sock[s] = "CLOSING"
  /\ ws = NoSocket /\ subscribeId = NULL /\ ~isSubscribed

\* C10: for every identifier X the structured acknowledgement
\* {action:'subscribed', subscribe_id:X} and the legacy text 'subscribe_id:X'
\* both leave subscribeId = X and isSubscribed = true.
C10_BothAckForms ==
  [][\A id \in AckIds :
       (lastOp' = "onmessage" /\ lastText' \in {StructuredAck(id, "none"), LegacyAck(id)}) =>
         subscribeId' = id /\ isSubscribed']_vars

\* the fields of the service and its timers are what they were
ServiceUnchanged ==
  UNCHANGED <<ws, isConnecting, connectionTimeout, reconnectAttempts, reconnectDelay,
              subscribeId, isSubscribed, sock, debounceTimers, reconnectTimers>>

UnsubAcks == {StructuredUnsubAck("success"), LegacyUnsubAck}

C12_RejectedAck ==
  [][(/\ lastOp' = "onmessage"
      /\ \E id \in AckIds : lastText' = StructuredAck(id, "error")
      /\ subscribeId = NULL /\ ~isSubscribed) =>
       /\ \E i \in 1..Len(events') : events'[i].kind = "error"
       /\ subscribeId' = NULL
       /\ ~isSubscribed']_vars

\* C13: subscribe() or unsubscribe() called while the connection is not open
\* transmits nothing and changes no state of the service; whatever is
\* transmitted is transmitted by such a call made while the connection is open,
\* so nothing that was dropped is sent later.
C13_DroppedWhenNotOpen ==
  [][/\ (lastOp' \in {"subscribe", "unsubscribe"} /\ ~OpenNow) =>
          Sends(events') = {} /\ ServiceUnchanged
     /\ Sends(events') # {} =>
          lastOp' \in {"subscribe", "unsubscribe"} /\ OpenNow /\ Cardinality(Sends(events')) = 1]_vars

C13_Witness ==
  /\ lastOp = "subscribe"
  /\ ws # NoSocket /\ sock[ws] = "CONNECTING"
  /\ Emitted(events, "warn", "WebSocket is not connected")

----------------------------------------------------------------------------
\* The handlers of CryptoChartSDK

\* a facade handler: its effect on the service is r, the facade's own fields are
\* given by the caller
SdkStep(op, r) ==
  /\ Commit(r)
  /\ lastOp' = op
  /\ seriesBefore' = IF op = "initialize" THEN candles ELSE seriesBefore
  /\ UNCHANGED <<config, now, codecVars>>

\* initialize(tokenId, connectWebSocket) up to the await of fetchHistoryCandles
Initialize(tokenId, connectWebSocket) ==
  LET call == [tokenId |-> tokenId, connectWebSocket |-> connectWebSocket] IN
  /\ sdkOps < MaxSdkOps
  /\ call \notin historyFetches
  /\ currentTokenId' = tokenId
  /\ isLoading' = TRUE
  /\ candles' = <<>>
  /\ historyFetches' = historyFetches \cup {call}
  /\ destroyed' = FALSE
  /\ notified' = <<>>
  /\ sdkOps' = sdkOps + 1
  /\ UNCHANGED <<updateInterval, liveTimers, chartUpdateInterval, pollFetches>>
  /\ SdkStep("initialize", This)

\* variant: the timer already registered is not cleared
StartPeriodicUpdates_NoClear(interval, registered, live, tokenId) ==
  LET started == interval # 0 /\ tokenId # NULL
  IN [updateInterval |-> started \/ registered,
      liveTimers |-> IF started THEN live + 1 ELSE live]

\* startPeriodicUpdates(): the timer this.updateInterval refers to is cleared; a
\* new one is registered when chartConfig.updateInterval and currentTokenId are
\* both set.  The result: whether a timer is registered, and the timers alive
StartPeriodicUpdates(interval, registered, live, tokenId) ==
  LET cleared == IF registered THEN live - 1 ELSE live
      started == interval # 0 /\ tokenId # NULL
  IN [updateInterval |-> started,
      liveTimers |-> IF started THEN cleared + 1 ELSE cleared]

\* initialize() from the await on, the promise resolved to historicalCandles
InitializeContinue(op, call, historicalCandles) ==
  /\ call \in historyFetches
  /\ call.connectWebSocket => starts < MaxStarts
  /\ historyFetches' = historyFetches \ {call}
  /\ candles' = historicalCandles
  /\ LET timer == StartPeriodicUpdates(chartUpdateInterval, updateInterval, liveTimers,
                                       currentTokenId)
     IN updateInterval' = timer.updateInterval /\ liveTimers' = timer.liveTimers
  /\ notified' = <<historicalCandles>>
  /\ isLoading' = FALSE
  /\ UNCHANGED <<currentTokenId, pollFetches, destroyed, sdkOps, chartUpdateInterval>>
  /\ SdkStep(op, IF call.connectWebSocket THEN StartConnectionOp(This) ELSE This)

\* fetchHistoryCandles: the candles of the response; the empty list when the
\* request fails (network error, status not ok, body not decodable)
FetchHistoryCandles(ok, body) == IF ok THEN body ELSE <<>>

\* initialize() from the await on: fetchHistoryCandles resolved to historicalCandles
InitializeResume(call, historicalCandles) ==
  InitializeContinue("initializeResume", call, FetchHistoryCandles(TRUE, historicalCandles))

\* ... or the history request failed
InitializeResumeFailed(call) ==
  InitializeContinue("initializeFailed", call, FetchHistoryCandles(FALSE, <<>>))

\* the setInterval callback: fetchLatestCandle() up to the await of fetchSingleCandle
PollTick ==
  /\ updateInterval
  /\ currentTokenId # NULL
  /\ [tokenId |-> currentTokenId] \notin pollFetches
  /\ pollFetches' = pollFetches \cup {[tokenId |-> currentTokenId]}
  /\ notified' = <<>>
  /\ UNCHANGED <<candles, currentTokenId, updateInterval, liveTimers, chartUpdateInterval, isLoading, historyFetches,
                 destroyed, sdkOps>>
  /\ SdkStep("pollTick", This)

\* fetchLatestCandle() from the await on: fetchSingleCandle resolved to a candle
PollResume(call, newCandle) ==
  /\ call \in pollFetches
  /\ pollFetches' = pollFetches \ {call}
  /\ candles' = UpsertCandle(candles, newCandle, now)
  /\ notified' = <<candles'>>
  /\ UNCHANGED <<currentTokenId, updateInterval, liveTimers, chartUpdateInterval, isLoading, historyFetches,
                 destroyed, sdkOps>>
  /\ SdkStep("pollResume", This)

\* ... or to null: nothing changes
PollResumeNull(call) ==
  /\ call \in pollFetches
  /\ pollFetches' = pollFetches \ {call}
  /\ notified' = <<>>
  /\ UNCHANGED <<candles, currentTokenId, updateInterval, liveTimers, chartUpdateInterval, isLoading, historyFetches,
                 destroyed, sdkOps>>
  /\ SdkStep("pollResumeNull", This)

Destroy ==
  /\ sdkOps < MaxSdkOps
  /\ updateInterval' = FALSE
  /\ liveTimers' = IF updateInterval THEN liveTimers - 1 ELSE liveTimers
  /\ UNCHANGED chartUpdateInterval
  /\ candles' = <<>>
  /\ isLoading' = FALSE
  /\ currentTokenId' = NULL
  /\ destroyed' = TRUE
  /\ notified' = <<>>
  /\ sdkOps' = sdkOps + 1
  /\ UNCHANGED <<historyFetches, pollFetches>>
  /\ SdkStep("destroy", DisconnectOp(This))

\* the facade's own handlers; the transport's callbacks stay pending
SdkNext ==
  \/ \E tokenId \in TokenIds, connectWebSocket \in BOOLEAN : Initialize(tokenId, connectWebSocket)
  \/ \E call \in historyFetches, h \in Histories : InitializeResume(call, h)
  \/ \E call \in historyFetches : InitializeResumeFailed(call)
  \/ PollTick
  \/ \E call \in pollFetches, c \in PollCandles : PollResume(call, c)
  \/ \E call \in pollFetches : PollResumeNull(call)
  \/ Destroy

\* the service is constructed with the default configuration
SdkInit == Init /\ config = [reconnectDelay |-> 0, urlOk |-> TRUE]

SdkSpec == SdkInit /\ [][SdkNext]_vars

\* C3: after destroy(), and until initialize() is called again, the series stays
\* empty, currentTokenId stays null, no poll timer is registered and no snapshot
\* is delivered, also when a fetch that was in flight completes.
C3_DestroyIsTerminal ==
  [][(destroyed /\ destroyed') =>
       /\ candles' = <<>>
       /\ currentTokenId' = NULL
       /\ ~updateInterval'
       /\ notified' = <<>>]_vars

----------------------------------------------------------------------------
\* Binary frames over the connection, merged by the facade

\* a handler of the service whose trade callback runs the facade's merge
BinaryStep(op, out) ==
  /\ Commit(out.r)
  /\ lastOp' = op
  /\ candles' = out.candles
  /\ notified' = out.notified
  /\ UNCHANGED <<config, now, currentTokenId, updateInterval, liveTimers, chartUpdateInterval, isLoading,
                 historyFetches, pollFetches, destroyed, sdkOps, seriesBefore, codecVars>>

\* handleBinaryMessage for the frame the transport delivered as number seq
Decoded(r, data, seq) ==
  LET out == HandleBinaryMessage([r EXCEPT !.lastFrame = data], candles, data)
  IN [out EXCEPT !.r.lastTradeSeq = IF DeserializeRealTimeTradeData(data).ok THEN seq ELSE @]

\* a binary frame arrives on an open socket (ws.onmessage): an ArrayBuffer is
\* handled at once, a Blob when its arrayBuffer() promise resolves
RecvBinary(s, data, representation) ==
  /\ sock[s] = "OPEN"
  /\ frames < MaxFrames
  /\ LET r == [This EXCEPT !.frames = @ + 1] IN
     IF representation = "ArrayBuffer"
     THEN BinaryStep("onbinary", Decoded(r, data, frames + 1))
     ELSE BinaryStep("onblob",
                     [r |-> [r EXCEPT !.pendingBlobs = @ \cup {[seq |-> frames + 1, data |-> data]}],
                      candles |-> candles, notified |-> <<>>])

\* event.data.arrayBuffer() resolves
BlobResolve(p) ==
  /\ p \in pendingBlobs
  /\ BinaryStep("blobResolved", Decoded([This EXCEPT !.pendingBlobs = @ \ {p}], p.data, p.seq))

\* one session: initialize() is called once and connects, the series is loaded
\* and polled, and the server streams trades as ArrayBuffer frames (the service
\* sets binaryType = 'arraybuffer')
TradeNext ==
  \/ \E tokenId \in TokenIds : sdkOps = 0 /\ Initialize(tokenId, TRUE)
  \/ \E call \in historyFetches, h \in Histories : InitializeResume(call, h)
  \/ DebounceFire
  \/ \E s \in Slots : SocketOpen(s)
  \/ \E s \in Slots, data \in Frames : RecvBinary(s, data, "ArrayBuffer")
  \/ PollTick
  \/ \E call \in pollFetches, c \in PollCandles : PollResume(call, c)

TradeSpec == SdkInit /\ [][TradeNext]_vars

\* 24-byte frames whose base amount is zero
ZeroAmountFrames == {Frame(24, 130, 18, 0), Frame(24, 130, 0, 0)}

\* the same session with a server that also sends such frames
ZeroAmountNext ==
  \/ TradeNext
  \/ \E s \in Slots, data \in ZeroAmountFrames : RecvBinary(s, data, "ArrayBuffer")

ZeroAmountSpec == SdkInit /\ [][ZeroAmountNext]_vars

\* the same session over a transport that also delivers Blob payloads
BlobNext ==
  \/ TradeNext
  \/ \E s \in Slots, data \in Frames : RecvBinary(s, data, "Blob")
  \/ \E p \in pendingBlobs : BlobResolve(p)

BlobSpec == SdkInit /\ [][BlobNext]_vars

----------------------------------------------------------------------------
\* Properties of the binary frames and of the merge

\* the step handled a binary frame / decoded it into a trade
FrameHandled == lastOp' \in {"onbinary", "blobResolved"}
TradeMerged == FrameHandled /\ lastFrame'.byteLength = 24
\* the trade's price, its minute bucket, and its distance to the last candle
TradePrice == lastFrame'.USD \div lastFrame'.Amount
Bucket == (lastFrame'.TradeTime \div 60) * 60
Diff == Bucket - candles[Len(candles)].Timestamp
TradeEvents(es) == {i \in 1..Len(es) : es[i].kind \in {"trade", "onTrade"}}
Timestamps(cs) == {cs[i].Timestamp : i \in 1..Len(cs)}

\* C14: a binary frame that fails to decode is reported through the error
\* callback, invokes no trade callback, and leaves the sockets, reconnectAttempts,
\* the backoff delay and the series as they were.
C14_DecodeFailure ==
  [][(FrameHandled /\ lastFrame'.byteLength # 24) =>
       /\ Emitted(events', "error", "Failed to deserialize binary data")
       /\ TradeEvents(events') = {}
       /\ ServiceUnchanged
       /\ candles' = candles /\ notified' = <<>>]_vars

C14_Witness ==
  /\ lastOp = "onbinary"
  /\ lastFrame.byteLength = 48
  /\ OpenNow
  /\ candles # <<>>
  /\ Emitted(events, "error", "Failed to deserialize binary data")

\* C15: trade callbacks fire in the order in which the transport delivered
\* their frames, whatever the representation of the payload.
C15_DeliveryOrder ==
  [][lastTradeSeq' # lastTradeSeq => lastTradeSeq' > lastTradeSeq]_vars

\* C16: a trade merged while the series is empty leaves it empty, delivers no
\* snapshot, and is forwarded to the consumer's trade callback.
C16_EmptySeries ==
  [][(TradeMerged /\ candles = <<>>) =>
       /\ candles' = <<>>
       /\ notified' = <<>>
       /\ \E i \in 1..Len(events') :
            /\ events'[i].kind = "onTrade"
            /\ events'[i].arg.TradeTime = lastFrame'.TradeTime
            /\ events'[i].arg.Price = TradePrice]_vars

C16_Witness ==
  /\ lastOp = "onbinary"
  /\ lastFrame.byteLength = 24
  /\ candles = <<>>
  /\ currentTokenId # NULL
  /\ OpenNow
  /\ \E i \in 1..Len(events) : events[i].kind = "onTrade"

\* C17: on a non-empty series a trade with 0 <= diff <= 120 changes the last
\* candle only: close, high, low and the two volumes as stated, its timestamp
\* and open, the length and every other candle unchanged.
C17_UpdateInPlace ==
  [][(TradeMerged /\ candles # <<>> /\ Diff >= 0 /\ Diff <= 120) =>
       LET n == Len(candles)
           old == candles[n]
           new == candles'[n]
       IN /\ Len(candles') = n
          /\ \A i \in 1..(n - 1) : candles'[i] = candles[i]
          /\ new.Timestamp = old.Timestamp
          /\ new.OpenPrice = old.OpenPrice
          /\ new.ClosePrice = TradePrice
          /\ new.HighPrice = Max(old.HighPrice, TradePrice)
          /\ new.LowPrice = Min(old.LowPrice, TradePrice)
          /\ new.VolumeIn = old.VolumeIn + lastFrame'.USD
          /\ new.VolumeOut = old.VolumeOut + lastFrame'.Amount]_vars

\* a candle at 120 after the trade at 250 (bucket 240, diff 120) at price 13
C17_Witness ==
  /\ lastOp = "onbinary"
  /\ lastFrame = Frame(24, 250, 26, 2)
  /\ candles = <<[Flat(120, 10) EXCEPT !.ClosePrice = 13, !.HighPrice = 13,
                                       !.VolumeIn = 27, !.VolumeOut = 3]>>

\* C18: after a trade with 0 <= diff <= 120 merged into a non-empty series, the
\* last candle has high >= max(open, close) and low <= min(open, close).
C18_HighLowBracket ==
  [][(TradeMerged /\ candles # <<>> /\ Diff >= 0 /\ Diff <= 120) =>
       LET new == candles'[Len(candles')]
       IN /\ new.HighPrice >= Max(new.OpenPrice, new.ClosePrice)
          /\ new.LowPrice <= Min(new.OpenPrice, new.ClosePrice)]_vars

\* C19: on a non-empty series a trade with diff < 0 keeps exactly the candles
\* with timestamp >= bucket - 3600, in order and unchanged; candles at
\* 60, 120, 180 and a trade in bucket 0 leave the series as it was.
C19_PruneOnOldTrade ==
  [][(TradeMerged /\ candles # <<>> /\ Diff < 0) =>
       /\ candles' = SelectSeq(candles, LAMBDA c : c.Timestamp >= Bucket - 3600)
       /\ (Bucket = 0 /\ Timestamps(candles) = {60, 120, 180}) => candles' = candles]_vars

\* candles at 60 and 7200 after the trade at 3725: the cutoff 120 dropped the first
C19_Witness ==
  /\ lastOp = "onbinary"
  /\ lastFrame = Frame(24, 3725, 12, 1)
  /\ candles = <<Flat(7200, 11)>>
  /\ notified = <<candles>>

\* C20: on a non-empty series a trade with diff > 120 leaves the series as it
\* was and delivers no snapshot; a candle with a new timestamp enters the
\* series only through a poll upsert or a history load.
C20_FutureTradeIgnored ==
  [][/\ (TradeMerged /\ candles # <<>> /\ Diff > 120) =>
          candles' = candles /\ notified' = <<>>
     /\ ~(Timestamps(candles') \subseteq Timestamps(candles)) =>
          lastOp' \in {"pollResume", "initializeResume"}]_vars

\* the trade at 3725 on a series that ends at 120
C20_Witness ==
  /\ lastOp = "onbinary"
  /\ lastFrame = Frame(24, 3725, 12, 1)
  /\ candles = <<Flat(120, 10)>>
  /\ notified = <<>>

----------------------------------------------------------------------------
\* Properties of the poll upsert and of the bounds of the series

Ascending(cs) == \A i \in 1..(Len(cs) - 1) : cs[i].Timestamp <= cs[i + 1].Timestamp
StrictlyAscending(cs) == \A i \in 1..(Len(cs) - 1) : cs[i].Timestamp < cs[i + 1].Timestamp
Range(cs) == {cs[i] : i \in 1..Len(cs)}
\* the candles the poll may have delivered in this step
Upserted == {c \in PollCandles : lastOp' = "pollResume" /\ candles' = UpsertCandle(candles, c, now)}

C22_UpsertIdempotent ==
  [][\A c \in Upserted : UpsertCandle(candles', c, now) = candles']_vars

\* C23: after an upsert the series has at most maxCandles candles, those it
\* kept are the newest of the placed ones, and none is older than now - 24 h.
C23_UpsertPrunes ==
  [][\A c \in Upserted :
       LET placed == PlaceCandle(candles, c)
           capped == IF Len(placed) > MaxCandles
                     THEN SubSeq(placed, Len(placed) - MaxCandles + 1, Len(placed))
                     ELSE placed
       IN /\ Len(candles') <= MaxCandles
          /\ \A i \in 1..Len(candles') : candles'[i].Timestamp >= now - 24 * 3600
          /\ \A i \in 1..Len(placed) : \A k \in 1..Len(capped) :
               placed[i] \notin Range(capped) => placed[i].Timestamp <= capped[k].Timestamp]_vars

\* C24: in every reachable state the series has at most maxCandles candles and
\* none older than 24 h.
C24_SeriesBounded ==
  /\ Len(candles) <= MaxCandles
  /\ \A i \in 1..Len(candles) : candles[i].Timestamp >= now - 24 * 3600

\* C25: in every reachable state the timestamps of the series are strictly
\* increasing and multiples of 60.
C25_TimestampsRegular ==
  /\ StrictlyAscending(candles)
  /\ \A i \in 1..Len(candles) : candles[i].Timestamp % 60 = 0

----------------------------------------------------------------------------
\* The facade's own calls: cleanupOldData and subscribe

\* olderThanHours as given by the caller (the default is 24)
Hours == {23, 24, 48}

\* variant: the manual cleanup without the cap of maxCandles
CleanupOldData_NoCap(cs, olderThanHours, t) ==
  IF Len(cs) = 0 THEN [candles |-> cs, notified |-> <<>>]
  ELSE LET kept == FilterFrom(cs, t - (olderThanHours * 60 * 60))
       IN [candles |-> kept,
           notified |-> IF Len(cs) - Len(kept) > 0 THEN <<kept>> ELSE <<>>]

\* cleanupOldData: the series afterwards and the snapshots it delivers
CleanupOldData(cs, olderThanHours, t) ==
  IF Len(cs) = 0 THEN [candles |-> cs, notified |-> <<>>]
  ELSE LET cutoffTimestamp == t - (olderThanHours * 60 * 60)
           filtered == FilterFrom(cs, cutoffTimestamp)
           kept == IF Len(filtered) > MaxCandles THEN SliceLast(filtered, MaxCandles)
                   ELSE filtered
       IN [candles |-> kept,
           notified |-> IF Len(cs) - Len(kept) > 0 THEN <<kept>> ELSE <<>>]

\* the arguments of the facade's subscribe(tokenId?): none, or a token
SubscribeArgs == {UNDEFINED} \cup TokenIds

\* variant: the token given is adopted before the connection is tested
FacadeSubscribeOp_Adopts(r, current, tokenId) ==
  LET targetTokenId == IF Truthy(tokenId) THEN tokenId ELSE current
  IN IF ~Truthy(targetTokenId)
     THEN [r |-> Emit(r, "facadeError", "No token ID set. Call initialize() first."),
           currentTokenId |-> current]
     ELSE IF ~IsOpen(r)
     THEN [r |-> Emit(r, "facadeError", "WebSocket is not connected"),
           currentTokenId |-> targetTokenId]
     ELSE [r |-> SubscribeOp(r, targetTokenId), currentTokenId |-> targetTokenId]

\* the facade's subscribe: the service afterwards and currentTokenId
FacadeSubscribeOp(r, current, tokenId) ==
  LET targetTokenId == IF Truthy(tokenId) THEN tokenId ELSE current
  IN IF ~Truthy(targetTokenId)
     THEN [r |-> Emit(r, "facadeError", "No token ID set. Call initialize() first."),
           currentTokenId |-> current]
     ELSE IF ~IsOpen(r)
     THEN [r |-> Emit(r, "facadeError", "WebSocket is not connected"),
           currentTokenId |-> current]
     ELSE [r |-> SubscribeOp(r, targetTokenId),
           currentTokenId |-> IF Truthy(tokenId) THEN tokenId ELSE current]

\* cleanupOldData(olderThanHours); the call and its argument are logged first
CleanupOldDataCall(olderThanHours) ==
  LET out == CleanupOldData(candles, olderThanHours, now) IN
  /\ candles' = out.candles
  /\ notified' = out.notified
  /\ UNCHANGED <<currentTokenId, updateInterval, liveTimers, chartUpdateInterval, isLoading, historyFetches, pollFetches,
                 destroyed, sdkOps>>
  /\ SdkStep("cleanupOldData", Emit(This, "call", olderThanHours))

\* subscribe(tokenId?)
FacadeSubscribe(tokenId) ==
  LET out == FacadeSubscribeOp(Emit(This, "call", tokenId), currentTokenId, tokenId) IN
  /\ currentTokenId' = out.currentTokenId
  /\ notified' = <<>>
  /\ UNCHANGED <<candles, updateInterval, liveTimers, chartUpdateInterval, isLoading, historyFetches, pollFetches,
                 destroyed, sdkOps>>
  /\ SdkStep("facadeSubscribe", out.r)

\* the session of TradeNext with the consumer calling the facade
FacadeNext ==
  \/ TradeNext
  \/ \E olderThanHours \in Hours : CleanupOldDataCall(olderThanHours)
  \/ \E tokenId \in SubscribeArgs : FacadeSubscribe(tokenId)

FacadeSpec == SdkInit /\ [][FacadeNext]_vars

\* the argument the last handler was called with
CalledWith(es, a) == Len(es) >= 1 /\ es[1] = [kind |-> "call", arg |-> a]
FacadeErrors(es) == {i \in 1..Len(es) : es[i].kind = "facadeError"}

C28_SubscribeFailsFast ==
  [][/\ \A a \in SubscribeArgs :
          (/\ lastOp' = "facadeSubscribe"
           /\ CalledWith(events', a)
           /\ \/ (~Truthy(a) /\ currentTokenId = NULL)
              \/ ~OpenNow) =>
            /\ Cardinality(FacadeErrors(events')) = 1
            /\ Sends(events') = {}
            /\ currentTokenId' = currentTokenId
            /\ ServiceUnchanged
            /\ candles' = candles
     /\ Sends(events') # {} => lastOp' = "facadeSubscribe" /\ OpenNow]_vars

\* subscribe('B') while the socket of the session for 'A' is still connecting
C28_Witness ==
  /\ lastOp = "facadeSubscribe"
  /\ CalledWith(events, "B")
  /\ currentTokenId = "A"
  /\ ws # NoSocket /\ sock[ws] = "CONNECTING"
  /\ Emitted(events, "facadeError", "WebSocket is not connected")

\* C27: when the history request of initialize fails, the facade reports an
\* error and the candles loaded before the call are still in the series.
C27_FailedFetchKeepsSeries ==
  [][(lastOp' = "initializeFailed" /\ seriesBefore # <<>>) =>
       /\ FacadeErrors(events') # {}
       /\ candles' = seriesBefore]_vars

\* C29: every merge of a trade that changes the series, and every upsert of a
\* polled candle, delivers exactly one snapshot, and the candles of that snapshot
\* are the series as it is right after the operation.
C29_OneSnapshot ==
  [][((FrameHandled /\ candles' # candles) \/ lastOp' = "pollResume") =>
       notified' = <<candles'>>]_vars

\* the trade at 130 (price 9) merged into the candle at 120: one snapshot, which
\* carries the new close
C29_Witness ==
  /\ lastOp = "onbinary"
  /\ lastFrame = Frame(24, 130, 18, 2)
  /\ Len(notified) = 1
  /\ notified[1] = candles
  /\ notified[1][Len(candles)].ClosePrice = 9

----------------------------------------------------------------------------
\* The consumer and the snapshots it receives

\* getChartData: candles is [...this.candles], a new list whose elements are the
\* store's own candle objects; an element is modelled by the place of the object
\* it refers to in the store's series
GetChartData(cs) == [i \in 1..Len(cs) |-> [ref |-> i]]

\* the values a consumer may write into a candle it received
ConsumerPrices == {99}

\* inside the update callback the consumer writes the close of a candle of the
\* snapshot it was handed: the write goes to the object the element refers to
ConsumerEditsCandle(i, price) ==
  LET snapshot == GetChartData(candles) IN
  /\ Len(notified) = 1
  /\ notified[1] = candles
  /\ i \in 1..Len(snapshot)
  /\ candles' = [candles EXCEPT ![snapshot[i].ref].ClosePrice = price]
  /\ notified' = <<>>
  /\ UNCHANGED <<currentTokenId, updateInterval, liveTimers, chartUpdateInterval, isLoading, historyFetches, pollFetches,
                 destroyed, sdkOps>>
  /\ SdkStep("consumerEditsCandle", This)

\* ... or removes an element of the list it was handed: the list is its own
ConsumerEditsList(i) ==
  LET snapshot == GetChartData(candles) IN
  /\ Len(notified) = 1
  /\ notified[1] = candles
  /\ i \in 1..Len(snapshot)
  /\ notified' = <<>>
  /\ UNCHANGED <<candles, currentTokenId, updateInterval, liveTimers, chartUpdateInterval, isLoading, historyFetches,
                 pollFetches, destroyed, sdkOps>>
  /\ SdkStep("consumerEditsList", This)

ConsumerNext ==
  \/ TradeNext
  \/ \E i \in 1..MaxCandles + 1, price \in ConsumerPrices : ConsumerEditsCandle(i, price)
  \/ \E i \in 1..MaxCandles + 1 : ConsumerEditsList(i)

ConsumerSpec == SdkInit /\ [][ConsumerNext]_vars

\* C30: nothing the consumer does to a snapshot it received changes the store's
\* series.
C30_SnapshotIsolated ==
  [][lastOp' \in {"consumerEditsCandle", "consumerEditsList"} => candles' = candles]_vars

----------------------------------------------------------------------------
\* The wire codec: candle batches (binary-deserializer.ts)

\* the longest buffer the model pads to
MaxBufferLength == 200

RECURSIVE Pow2(_)
Pow2(k) == IF k = 0 THEN 1 ELSE 2 * Pow2(k - 1)

RECURSIVE LittleEndian(_, _)
\* the k low bytes of the natural number n, least significant first
LittleEndian(n, k) == IF k = 0 THEN <<>> ELSE <<n % 256>> \o LittleEndian(n \div 256, k - 1)

RECURSIVE FromLittleEndian(_, _, _)
\* the natural number in the k bytes of data after offset
FromLittleEndian(data, offset, k) ==
  IF k = 0 THEN 0 ELSE data[offset + 1] + 256 * FromLittleEndian(data, offset + 1, k - 1)

Complement(bytes) == [i \in 1..Len(bytes) |-> 255 - bytes[i]]

\* view.setUint32(offset, n, true)
SetUint32(n) == LittleEndian(n, 4)
\* view.getUint32(offset, true)
GetUint32(data, offset) == FromLittleEndian(data, offset, 4)

\* view.setBigInt64(offset, BigInt(n), true): two's complement, 8 bytes
SetBigInt64(n) == IF n >= 0 THEN LittleEndian(n, 8) ELSE Complement(LittleEndian(-n - 1, 8))
\* Number(view.getBigInt64(offset, true)); a value of 2^31 or more in magnitude
\* is kept as the bytes that hold it
GetBigInt64(data, offset) ==
  LET bytes == SubSeq(data, offset + 1, offset + 8)
      digits == IF bytes[8] < 128 THEN bytes ELSE Complement(bytes)
  IN IF \E i \in 4..8 : digits[i] # 0 \/ digits[4] >= 128 THEN [int64 |-> bytes]
     ELSE IF bytes[8] < 128 THEN FromLittleEndian(digits, 0, 8)
     ELSE -FromLittleEndian(digits, 0, 8) - 1

\* floor(log2 x) for x >= 1
RECURSIVE Log2(_)
Log2(x) == IF x < 2 THEN 0 ELSE 1 + Log2(x \div 2)

\* view.setFloat64(offset, x, true) for an integer |x| < 2^20: IEEE 754 binary64,
\* sign bit, 11 bits of exponent biased by 1023, 52 bits of fraction of which
\* only the 20 highest can be set for such an x
SetFloat64(x) ==
  IF x = 0 THEN <<0, 0, 0, 0, 0, 0, 0, 0>>
  ELSE LET sign == IF x < 0 THEN 1 ELSE 0
           magnitude == IF x < 0 THEN -x ELSE x
           e == Log2(magnitude)
           exponent == 1023 + e
           fraction == (magnitude - Pow2(e)) * Pow2(20 - e)
       IN <<0, 0, 0, 0, fraction % 256, (fraction \div 256) % 256,
            (exponent % 16) * 16 + fraction \div 65536,
            sign * 128 + exponent \div 16>>

\* view.getFloat64(offset, true): the integer when the bytes hold one below 2^20
\* in magnitude; any other value is kept as the bytes that hold it
GetFloat64(data, offset) ==
  LET bytes == SubSeq(data, offset + 1, offset + 8)
      sign == bytes[8] \div 128
      exponent == (bytes[8] % 128) * 16 + bytes[7] \div 16
      fraction == (bytes[7] % 16) * 65536 + bytes[6] * 256 + bytes[5]
      e == exponent - 1023
  IN IF bytes = <<0, 0, 0, 0, 0, 0, 0, 0>> THEN 0
     ELSE IF \/ \E i \in 1..4 : bytes[i] # 0
             \/ e < 0 \/ e >= 20
             \/ fraction % Pow2(20 - e) # 0
     THEN [float64 |-> bytes]
     ELSE LET magnitude == (Pow2(20) + fraction) \div Pow2(20 - e)
          IN IF sign = 1 THEN -magnitude ELSE magnitude

\* variant: a record with high written before close
CandleBytes_HighBeforeClose(candle) ==
  SetBigInt64(candle.Timestamp) \o SetFloat64(candle.OpenPrice)
    \o SetFloat64(candle.HighPrice) \o SetFloat64(candle.ClosePrice)
    \o SetFloat64(candle.LowPrice) \o SetFloat64(candle.VolumeIn)
    \o SetFloat64(candle.VolumeOut)

\* the bytes createMockBinaryData writes for one candle: seven fields of 8 bytes,
\* the offset moving on by 56
CandleBytes(candle) ==
  SetBigInt64(candle.Timestamp) \o SetFloat64(candle.OpenPrice)
    \o SetFloat64(candle.ClosePrice) \o SetFloat64(candle.HighPrice)
    \o SetFloat64(candle.LowPrice) \o SetFloat64(candle.VolumeIn)
    \o SetFloat64(candle.VolumeOut)

RECURSIVE WriteCandles(_)
WriteCandles(cs) == IF cs = <<>> THEN <<>> ELSE CandleBytes(Head(cs)) \o WriteCandles(Tail(cs))

\* createMockBinaryData: a zeroed buffer of 4 + length * 64 bytes, into which the
\* count and then every candle is written; the bytes never written stay zero
CreateMockBinaryData(cs) ==
  LET written == SetUint32(Len(cs)) \o WriteCandles(cs)
  IN written \o [i \in 1..(4 + Len(cs) * 64 - Len(written)) |-> 0]

\* the candle read at offset, the offset moving on by 8 after every field
ReadCandle(data, offset) ==
  [Timestamp |-> GetBigInt64(data, offset),
   OpenPrice |-> GetFloat64(data, offset + 8),
   ClosePrice |-> GetFloat64(data, offset + 16),
   HighPrice |-> GetFloat64(data, offset + 24),
   LowPrice |-> GetFloat64(data, offset + 32),
   VolumeIn |-> GetFloat64(data, offset + 40),
   VolumeOut |-> GetFloat64(data, offset + 48)]

\* variant: only a buffer that is too short is refused
DeserializeCandleData_AcceptsLonger(data) ==
  IF Len(data) < 4
  THEN [ok |-> FALSE, error |-> "RangeError", candles |-> <<>>]
  ELSE LET count == GetUint32(data, 0)
           expectedSize == 4 + count * 64
       IN IF Len(data) < expectedSize
          THEN [ok |-> FALSE, error |-> "Invalid data size", candles |-> <<>>]
          ELSE [ok |-> TRUE, error |-> "",
                candles |-> [i \in 1..count |-> ReadCandle(data, 4 + (i - 1) * 56)]]

\* deserializeCandleData: ok is FALSE when it throws (getUint32 throws a
\* RangeError on a buffer of less than 4 bytes)
DeserializeCandleData(data) ==
  IF Len(data) < 4
  THEN [ok |-> FALSE, error |-> "RangeError", candles |-> <<>>]
  ELSE LET count == GetUint32(data, 0)
           expectedSize == 4 + count * 64
       IN IF Len(data) # expectedSize
          THEN [ok |-> FALSE, error |-> "Invalid data size", candles |-> <<>>]
          ELSE [ok |-> TRUE, error |-> "",
                candles |-> [i \in 1..count |-> ReadCandle(data, 4 + (i - 1) * 56)]]

\* the candle sequences encoded: the histories, and one candle with a negative
\* timestamp, a negative price and seven different field values
Batches ==
  Histories \cup
    {<<[Timestamp |-> -60, OpenPrice |-> 1, ClosePrice |-> 2, HighPrice |-> 3,
        LowPrice |-> -4, VolumeIn |-> 1000, VolumeOut |-> 7]>>}

\* the counts written over the first four bytes, and the bytes cut off the end
Counts == {0, 1, 2, 257}
Cuts == {1, 40, 64}

CodecStep(op) == lastOp' = op /\ UNCHANGED <<wsVars, sdkVars, config>>

Encode(cs) ==
  /\ buffer' = CreateMockBinaryData(cs)
  /\ encodedFrom' = <<cs>>
  /\ decoded' = NoResult
  /\ CodecStep("encode")

\* the buffers decoded are the encoder's, cut at the end or padded with zeros,
\* and then possibly given another count
Truncate(k) ==
  /\ lastOp \in {"encode", "truncate"}
  /\ Len(buffer) >= k
  /\ buffer' = SubSeq(buffer, 1, Len(buffer) - k)
  /\ encodedFrom' = <<>>
  /\ decoded' = NoResult
  /\ CodecStep("truncate")

Pad ==
  /\ lastOp \in {"encode", "pad"}
  /\ Len(buffer) < MaxBufferLength
  /\ buffer' = Append(buffer, 0)
  /\ encodedFrom' = <<>>
  /\ decoded' = NoResult
  /\ CodecStep("pad")

SetCount(n) ==
  /\ lastOp \in {"encode", "truncate", "pad"}
  /\ Len(buffer) >= 4
  /\ buffer' = SetUint32(n) \o SubSeq(buffer, 5, Len(buffer))
  /\ encodedFrom' = <<>>
  /\ decoded' = NoResult
  /\ CodecStep("setCount")

Decode ==
  /\ decoded' = DeserializeCandleData(buffer)
  /\ UNCHANGED <<buffer, encodedFrom>>
  /\ CodecStep("decode")

CodecNext ==
  \/ \E cs \in Batches : Encode(cs)
  \/ \E k \in Cuts : Truncate(k)
  \/ Pad
  \/ \E n \in Counts : SetCount(n)
  \/ Decode

CodecSpec == SdkInit /\ [][CodecNext]_vars

\* C31: deserializeCandleData fails exactly when the byte length differs from
\* 4 + count * 64 (a buffer too short to hold the count fails as well), and
\* otherwise returns count candles; 28 bytes with count = 1 fail.
C31_SizeChecked ==
  lastOp = "decode" =>
    LET sized == Len(buffer) >= 4 /\ Len(buffer) = 4 + GetUint32(buffer, 0) * 64
    IN /\ decoded.ok <=> sized
       /\ decoded.ok => Len(decoded.candles) = GetUint32(buffer, 0)
       /\ (Len(buffer) = 28 /\ GetUint32(buffer, 0) = 1) => ~decoded.ok

\* 28 bytes with count = 1 were refused
C31_Witness ==
  /\ lastOp = "decode"
  /\ Len(buffer) = 28
  /\ GetUint32(buffer, 0) = 1
  /\ ~decoded.ok

\* C33: decoding the bytes createMockBinaryData made of a candle sequence gives
\* that sequence back: same length, same order, same field values.
C33_RoundTrip ==
  (lastOp = "decode" /\ encodedFrom # <<>>) =>
    decoded.ok /\ decoded.candles = encodedFrom[1]

\* the candle with seven different fields, two of them negative, came back
C33_Witness ==
  /\ lastOp = "decode"
  /\ encodedFrom # <<>>
  /\ Len(decoded.candles) = 1
  /\ decoded.candles[1].Timestamp = -60
  /\ decoded.candles[1].LowPrice = -4
  /\ decoded.candles[1].VolumeIn = 1000

\* C32: a 24-byte frame whose base amount is zero makes the decoder fail: an
\* error is reported, no trade callback is invoked and the series is left alone.
C32_ZeroAmountRefused ==
  [][(FrameHandled /\ lastFrame'.byteLength = 24 /\ lastFrame'.Amount = 0) =>
       /\ Emitted(events', "error", "Failed to deserialize binary data")
       /\ TradeEvents(events') = {}
       /\ candles' = candles]_vars

----------------------------------------------------------------------------
\* Requests in flight across a change of symbol

\* the history and poll requests that completed in the step
HistoryResolved == historyFetches \ historyFetches'
PollResolved == pollFetches \ pollFetches'

\* C34: when the history fetches of two initialize calls overlap, the history
\* that is the series once all have completed is the one fetched for the current
\* symbol, whatever the order in which they resolve.
C34_CurrentSymbolWins ==
  [][(/\ lastOp' \in {"initializeResume", "initializeFailed"}
      /\ historyFetches' = {}
      /\ candles' # <<>>
      /\ ~destroyed') =>
       \A call \in HistoryResolved : call.tokenId = currentTokenId']_vars

\* C35: the poll upserts a candle only into the series of the symbol it was
\* fetched for.
C35_PollForCurrentSymbol ==
  [][(lastOp' = "pollResume" /\ candles' # candles) =>
       \A call \in PollResolved : call.tokenId = currentTokenId]_vars

----------------------------------------------------------------------------
\* The poll timer across updateChartConfig

\* a field the Partial<ChartConfig> does not carry
Absent == -1

\* the configurations a caller passes to updateChartConfig
NewConfigs ==
  [maxCandles : {Absent, MaxCandles}, updateInterval : {Absent, 0, 5000}]

UpdateChartConfig(newConfig) ==
  LET interval == IF newConfig.updateInterval # Absent THEN newConfig.updateInterval
                  ELSE chartUpdateInterval
      sliced == newConfig.maxCandles # Absent /\ Len(candles) > newConfig.maxCandles
      timer == IF newConfig.updateInterval # Absent
               THEN StartPeriodicUpdates(interval, updateInterval, liveTimers, currentTokenId)
               ELSE [updateInterval |-> updateInterval, liveTimers |-> liveTimers]
  IN /\ chartUpdateInterval' = interval
     /\ candles' = IF sliced THEN SliceLast(candles, newConfig.maxCandles) ELSE candles
     /\ notified' = IF sliced THEN <<candles'>> ELSE <<>>
     /\ updateInterval' = timer.updateInterval
     /\ liveTimers' = timer.liveTimers
     /\ UNCHANGED <<currentTokenId, isLoading, historyFetches, pollFetches, destroyed, sdkOps>>
     /\ SdkStep("updateChartConfig", This)

\* initialize (without the connection), updateChartConfig and destroy in any order
ConfigNext ==
  \/ \E tokenId \in TokenIds : Initialize(tokenId, FALSE)
  \/ \E call \in historyFetches, h \in Histories : InitializeResume(call, h)
  \/ \E newConfig \in NewConfigs : UpdateChartConfig(newConfig)
  \/ Destroy

ConfigSpec == SdkInit /\ [][ConfigNext]_vars

\* C36: at most one poll timer is alive in any state, it is the one the facade
\* refers to, and right after destroy() none is alive.
C36_OnePollTimer ==
  /\ liveTimers <= 1
  /\ liveTimers = IF updateInterval THEN 1 ELSE 0
  /\ lastOp = "destroy" => liveTimers = 0

\* updateChartConfig({updateInterval: 5000}) in a loaded session, whose timer
\* initialize had registered: one timer is alive
C36_Witness ==
  /\ lastOp = "updateChartConfig"
  /\ chartUpdateInterval = 5000
  /\ currentTokenId # NULL
  /\ candles # <<>>
  /\ historyFetches = {}
  /\ liveTimers = 1

----------------------------------------------------------------------------
\* The subscription status

\* C37: isSubscribed is true only while the connection is open, so that after
\* a transport closure the status no longer reports a subscription.
C37_SubscribedImpliesConnected == isSubscribed => OpenNow

\* C40: isSubscribed is true exactly when a non-empty subscription identifier
\* is held.
C40_SubscribedIffIdHeld == isSubscribed <=> Truthy(subscribeId)

----------------------------------------------------------------------------
\* The trade notification

OnTrades(es) == {i \in 1..Len(es) : es[i].kind = "onTrade"}
ChartUpdates(es) == {i \in 1..Len(es) : es[i].kind = "chartUpdate"}

\* C38: every trade decoded from the stream reaches the consumer's trade
\* callback exactly once, in every branch of the merge, and the snapshot of the
\* merge, if there is one, is delivered before it and carries the merged series.
C38_TradeForwardedOnce ==
  [][TradeMerged =>
       /\ Cardinality(OnTrades(events')) = 1
       /\ \A i \in OnTrades(events') :
            /\ events'[i].arg.TradeTime = lastFrame'.TradeTime
            /\ events'[i].arg.USD = lastFrame'.USD
            /\ events'[i].arg.Amount = lastFrame'.Amount
            /\ \A j \in ChartUpdates(events') : j < i /\ events'[j].arg = candles'
       /\ Cardinality(ChartUpdates(events')) = Len(notified')]_vars

\* the old trade at 3725 pruned the series: the snapshot, then the trade
C38_Witness ==
  /\ lastOp = "onbinary"
  /\ lastFrame = Frame(24, 3725, 12, 1)
  /\ Len(notified) = 1
  /\ \E j \in ChartUpdates(events), i \in OnTrades(events) : j < i

\* C39: a trade merge never empties a non-empty series: with diff < 0 the last
\* candle is retained, and the other branches remove nothing.
C39_MergeKeepsLast ==
  [][(TradeMerged /\ candles # <<>>) =>
       /\ candles' # <<>>
       /\ Diff < 0 => candles'[Len(candles')] = candles[Len(candles)]
       /\ Diff >= 0 => Len(candles') = Len(candles)]_vars

\* candles at 60 and 7200, trade in bucket 3720: the candle at 7200 is the one left
C39_Witness ==
  /\ lastOp = "onbinary"
  /\ (lastFrame.TradeTime \div 60) * 60 = 3720
  /\ Len(candles) = 1
  /\ candles[1].Timestamp = 7200
  /\ notified # <<>>

====
